---- MODULE Spec2Model ----
(***************************************************************************)
(* qibullet SimulationManager (src/qibullet/simulation_manager.py).        *)
(*                                                                         *)
(* One foreground caller invokes launchSimulation, resetSimulation,        *)
(* stopSimulation and spawnPepper synchronously.  Every headless launch    *)
(* starts one thread running _stepSimulation.  The caller and the threads  *)
(* interleave between physics-engine calls; one engine call is one atomic  *)
(* step.  The engine keeps a table of client slots, hands out the lowest   *)
(* free slot on connect and raises "Not connected to physics server." for  *)
(* a call on a slot that holds no connection.                              *)
(***************************************************************************)
EXTENDS Integers, Sequences, FiniteSets, TLC

\* ---------------------------------------------------------------- bounds
MaxClients == 2      \* client slots of the engine that the model explores
MaxTasks == 1        \* headless launches (threads) per behaviour
MaxObjects == 2      \* objects loaded at one time, all instances together

\* ------------------------------------------------------ program constants
DefaultClient == 0   \* physicsClientId an engine call takes when none is passed

Clients == 0 .. (MaxClients - 1)
Tasks == 1 .. MaxTasks
Freqs == {1, 2}
\* frequency_multiplier is read only without the gui; with it the default is passed
FreqsFor(g) == IF g THEN {1} ELSE Freqs
Kinds == {"RGB", "DEPTH", "SEG"}
ZeroGravity == <<0, 0, 0>>
\* gravity in cm/s^2: (0, 0, -9.81) m/s^2
MutGravityVector == <<0, 0, 981>>
GravityVector == <<0, 0, -981>>

VARIABLES
    \* engine, per client slot
    connected, mode, gravity, realTime, preview, objects, searchPath, stepped,
    \* foreground caller
    pc, op, gui, frequency_multiplier, physics_client, spawn_ground_plane, err,
    \* threads running _stepSimulation
    tpc, tclient, tfreq,
    \* history: tasks started by the call in progress, what the handle of the
    \* call was when the call was made, handles ever disconnected, and what a
    \* thread has met (its handle disconnected, a step after that, a failed step)
    started, callKind, everStopped, tstop

engineVars == <<connected, mode, gravity, realTime, preview, objects, searchPath, stepped>>
callVars == <<op, gui, frequency_multiplier, physics_client, spawn_ground_plane>>
taskVars == <<tpc, tclient, tfreq>>
histVars == <<started, callKind, everStopped, tstop>>
vars == <<engineVars, pc, callVars, err, taskVars, histVars>>

NoClient == 0 - 1
AllPreviews == [k \in Kinds |-> TRUE]
Finished == {"idle", "returned", "raised"}
Alive(t) == tpc[t] = "loop"

Init ==
    /\ connected = [c \in Clients |-> FALSE]
    /\ mode = [c \in Clients |-> "NONE"]
    /\ gravity = [c \in Clients |-> ZeroGravity]
    /\ realTime = [c \in Clients |-> FALSE]
    /\ preview = [c \in Clients |-> AllPreviews]
    /\ objects = [c \in Clients |-> <<>>]
    /\ searchPath = [c \in Clients |-> FALSE]
    /\ stepped = [c \in Clients |-> FALSE]
    /\ pc = "idle"
    /\ op = "none"
    /\ gui = FALSE
    /\ frequency_multiplier = 1
    /\ physics_client = NoClient
    /\ spawn_ground_plane = FALSE
    /\ err = "none"
    /\ tpc = [t \in Tasks |-> "unborn"]
    /\ tclient = [t \in Tasks |-> NoClient]
    /\ tfreq = [t \in Tasks |-> 1]
    /\ started = {}
    /\ callKind = "none"
    /\ everStopped = [c \in Clients |-> FALSE]
    /\ tstop = [t \in Tasks |-> "no"]

\* ------------------------------------------------------------ the caller
\* A call binds the arguments; a method is entered when the caller is between
\* calls, and its first engine call is its first step.
KindOf(h) ==
    IF connected[h]
    THEN IF everStopped[h] THEN "reissued" ELSE "live"
    ELSE IF everStopped[h] THEN "stopped" ELSE "unissued"

Bind(o, g, f, h, p) ==
    /\ pc \in Finished
    /\ callKind' = IF o = "launchSimulation" THEN "none" ELSE KindOf(h)
    /\ op' = o
    /\ gui' = g
    /\ frequency_multiplier' = f
    /\ physics_client' = h
    /\ spawn_ground_plane' = p
    /\ started' = {}

\* the exception of an engine call leaves the method and reaches the caller
Raise(e) ==
    /\ pc' = "raised"
    /\ err' = e

Proceed(next) ==
    /\ pc' = next
    /\ err' = "none"

\* ------------------------------------------------------- launchSimulation
\* line 37: the branch taken; only the else branch (DIRECT) starts a thread
MutStartsThread(g) == TRUE
StartsThread(g) == ~g

ConnectMode(g) == IF g THEN "GUI" ELSE "DIRECT"

\* pybullet.connect: the lowest free slot; one GUI connection per process
FreeSlots == {c \in Clients : ~connected[c]}
LowestFree == CHOOSE c \in FreeSlots : \A d \in FreeSlots : c <= d
CanConnect(m) ==
    /\ FreeSlots # {}
    /\ m = "GUI" => \A c \in Clients : mode[c] # "GUI"

UnbornTasks == {t \in Tasks : tpc[t] = "unborn"}
NextTask == CHOOSE t \in UnbornTasks : \A u \in UnbornTasks : t <= u

\* lines 37, 38 and 53
launchSimulation_connect(g, f) ==
    /\ StartsThread(g) => UnbornTasks # {}
    /\ IF CanConnect(ConnectMode(g))
       THEN /\ Bind("launchSimulation", g, f, LowestFree, FALSE)
            /\ connected' = [connected EXCEPT ![LowestFree] = TRUE]
            /\ mode' = [mode EXCEPT ![LowestFree] = ConnectMode(g)]
            /\ Proceed(IF g THEN "setRealTime"
                       ELSE IF StartsThread(g) THEN "startThread" ELSE "setGravity")
       ELSE /\ Bind("launchSimulation", g, f, NoClient, FALSE)
            /\ Raise("connection")
            /\ UNCHANGED <<connected, mode>>
    /\ UNCHANGED <<gravity, realTime, preview, objects, searchPath, stepped>>
    /\ UNCHANGED <<taskVars, everStopped, tstop>>

\* line 39
launchSimulation_setRealTime ==
    /\ pc = "setRealTime"
    /\ IF connected[physics_client]
       THEN /\ realTime' = [realTime EXCEPT ![physics_client] = TRUE]
            /\ Proceed("cfgRGB")
       ELSE /\ Raise("not_connected")
            /\ UNCHANGED realTime
    /\ UNCHANGED <<connected, mode, gravity, preview, objects, searchPath, stepped>>
    /\ UNCHANGED <<callVars, taskVars, histVars>>

\* lines 40-51: the three previews, in the order RGB, depth, segmentation
PreviewAt(p) ==
    IF p = "cfgRGB" THEN "RGB" ELSE IF p = "cfgDepth" THEN "DEPTH" ELSE "SEG"
AfterPreview(p) ==
    IF p = "cfgRGB" THEN "cfgDepth"
    ELSE IF p = "cfgDepth" THEN "cfgSeg"
    ELSE IF StartsThread(gui) THEN "startThread" ELSE "setGravity"

launchSimulation_configureDebugVisualizer ==
    /\ pc \in {"cfgRGB", "cfgDepth", "cfgSeg"}
    /\ IF connected[physics_client]
       THEN /\ preview' = [preview EXCEPT ![physics_client][PreviewAt(pc)] = FALSE]
            /\ Proceed(AfterPreview(pc))
       ELSE /\ Raise("not_connected")
            /\ UNCHANGED preview
    /\ UNCHANGED <<connected, mode, gravity, realTime, objects, searchPath, stepped>>
    /\ UNCHANGED <<callVars, taskVars, histVars>>

\* lines 54-56: threading.Thread(target=_stepSimulation, args=[...]).start()
launchSimulation_startThread ==
    /\ pc = "startThread"
    /\ tpc' = [tpc EXCEPT ![NextTask] = "loop"]
    /\ tclient' = [tclient EXCEPT ![NextTask] = physics_client]
    /\ tfreq' = [tfreq EXCEPT ![NextTask] = frequency_multiplier]
    /\ started' = started \cup {NextTask}
    /\ Proceed("setGravity")
    /\ UNCHANGED <<engineVars, callVars, callKind, everStopped, tstop>>

\* lines 58-59
launchSimulation_setGravity ==
    /\ pc = "setGravity"
    /\ IF connected[physics_client]
       THEN /\ gravity' = [gravity EXCEPT ![physics_client] = GravityVector]
            /\ Proceed("returned")
       ELSE /\ Raise("not_connected")
            /\ UNCHANGED gravity
    /\ UNCHANGED <<connected, mode, realTime, preview, objects, searchPath, stepped>>
    /\ UNCHANGED <<callVars, taskVars, histVars>>

\* -------------------------------------------------------- resetSimulation
\* line 67: physicsClientId=physics_client
MutResetTarget(h) == DefaultClient
ResetTarget(h) == h

resetSimulation(h) ==
    /\ Bind("resetSimulation", FALSE, 1, h, FALSE)
    /\ IF connected[ResetTarget(h)]
       THEN /\ objects' = [objects EXCEPT ![ResetTarget(h)] = <<>>]
            /\ Proceed("returned")
       ELSE /\ Raise("not_connected")
            /\ UNCHANGED objects
    /\ UNCHANGED <<connected, mode, gravity, realTime, preview, searchPath, stepped>>
    /\ UNCHANGED <<taskVars, everStopped, tstop>>

\* --------------------------------------------------------- stopSimulation
\* line 76: physicsClientId=physics_client
MutStopTarget(h) == DefaultClient
StopTarget(h) == h

\* the connection and everything the instance held are gone
stopSimulation(h) ==
    /\ Bind("stopSimulation", FALSE, 1, h, FALSE)
    /\ LET c == StopTarget(h) IN
       IF connected[c]
       THEN /\ connected' = [connected EXCEPT ![c] = FALSE]
            /\ mode' = [mode EXCEPT ![c] = "NONE"]
            /\ gravity' = [gravity EXCEPT ![c] = ZeroGravity]
            /\ realTime' = [realTime EXCEPT ![c] = FALSE]
            /\ preview' = [preview EXCEPT ![c] = AllPreviews]
            /\ objects' = [objects EXCEPT ![c] = <<>>]
            /\ searchPath' = [searchPath EXCEPT ![c] = FALSE]
            /\ stepped' = [stepped EXCEPT ![c] = FALSE]
            /\ everStopped' = [everStopped EXCEPT ![c] = TRUE]
            /\ tstop' = [t \in Tasks |->
                           IF Alive(t) /\ tclient[t] = c /\ tstop[t] = "no"
                           THEN "stopped" ELSE tstop[t]]
            /\ Proceed("returned")
       ELSE /\ Raise("not_connected")
            /\ UNCHANGED <<engineVars, everStopped, tstop>>
    /\ UNCHANGED taskVars

\* ------------------------------------------------------------ spawnPepper
\* lines 106 and 111: physicsClientId=physics_client
MutLoadTarget(h) == DefaultClient
LoadTarget(h) == h

Needed(p) == IF p THEN 2 ELSE 1
RECURSIVE Loaded(_)
Loaded(S) ==
    IF S = {} THEN 0
    ELSE LET c == CHOOSE x \in S : TRUE IN Len(objects[c]) + Loaded(S \ {c})

\* PepperVirtual.loadRobot: the loader adds the robot to instance c or fails
loadRobot(c, ok) ==
    IF ~connected[c]
    THEN /\ Raise("not_connected")
         /\ UNCHANGED objects
    ELSE IF ok
    THEN /\ objects' = [objects EXCEPT ![c] = Append(@, "pepper")]
         /\ Proceed("returned")
    ELSE /\ Raise("asset")
         /\ UNCHANGED objects

\* lines 100-103 with spawn_ground_plane: the PepperVirtual object is built,
\* then setAdditionalSearchPath is called with no physicsClientId, so the
\* engine takes its default client
spawnPepper_setAdditionalSearchPath(h) ==
    /\ Loaded(Clients) + Needed(TRUE) <= MaxObjects
    /\ Bind("spawnPepper", FALSE, 1, h, TRUE)
    /\ IF connected[DefaultClient]
       THEN /\ searchPath' = [searchPath EXCEPT ![DefaultClient] = TRUE]
            /\ Proceed("loadMJCF")
       ELSE /\ Raise("not_connected")
            /\ UNCHANGED searchPath
    /\ UNCHANGED <<connected, mode, gravity, realTime, preview, objects, stepped>>
    /\ UNCHANGED <<taskVars, everStopped, tstop>>

\* lines 104-106: the load may fail on the asset
spawnPepper_loadMJCF ==
    /\ pc = "loadMJCF"
    /\ LET c == LoadTarget(physics_client) IN
       IF connected[c]
       THEN \E ok \in BOOLEAN :
              IF ok
              THEN /\ objects' = [objects EXCEPT ![c] = Append(@, "ground_plane")]
                   /\ Proceed("loadRobot")
              ELSE /\ Raise("asset")
                   /\ UNCHANGED objects
       ELSE /\ Raise("not_connected")
            /\ UNCHANGED objects
    /\ UNCHANGED <<connected, mode, gravity, realTime, preview, searchPath, stepped>>
    /\ UNCHANGED <<callVars, taskVars, histVars>>

\* lines 108-113 after the ground plane
spawnPepper_loadRobot ==
    /\ pc = "loadRobot"
    /\ \E ok \in BOOLEAN : loadRobot(LoadTarget(physics_client), ok)
    /\ UNCHANGED <<connected, mode, gravity, realTime, preview, searchPath, stepped>>
    /\ UNCHANGED <<callVars, taskVars, histVars>>

\* lines 100-113 without spawn_ground_plane
spawnPepper_noGroundPlane(h) ==
    /\ Loaded(Clients) + Needed(FALSE) <= MaxObjects
    /\ Bind("spawnPepper", FALSE, 1, h, FALSE)
    /\ \E ok \in BOOLEAN : loadRobot(LoadTarget(h), ok)
    /\ UNCHANGED <<connected, mode, gravity, realTime, preview, searchPath, stepped>>
    /\ UNCHANGED <<taskVars, everStopped, tstop>>

\* -------------------------------------------------------- _stepSimulation
\* lines 135-136: except Exception: pass, the thread ends
MutAfterStepFailure == "loop"
AfterStepFailure == "done"

\* line 133: physicsClientId=physics_client, the thread's argument
StepTarget(t) == tclient[t]

\* lines 131-136, one iteration: the step call, then the sleep, which touches
\* nothing shared; a failed step call ends the thread and its locals
stepSimulation(t) ==
    /\ tpc[t] = "loop"
    /\ IF connected[StepTarget(t)]
       THEN /\ stepped' = [stepped EXCEPT ![StepTarget(t)] = TRUE]
            /\ tstop' = [tstop EXCEPT ![t] = IF @ = "stopped" THEN "stepped" ELSE @]
            /\ UNCHANGED <<tpc, tclient, tfreq>>
       ELSE /\ tpc' = [tpc EXCEPT ![t] = AfterStepFailure]
            /\ tclient' = [tclient EXCEPT ![t] =
                             IF AfterStepFailure = "done" THEN NoClient ELSE @]
            /\ tfreq' = [tfreq EXCEPT ![t] =
                             IF AfterStepFailure = "done" THEN 1 ELSE @]
            /\ tstop' = [tstop EXCEPT ![t] = "failed"]
            /\ UNCHANGED stepped
    /\ UNCHANGED <<connected, mode, gravity, realTime, preview, objects, searchPath>>
    /\ UNCHANGED <<pc, callVars, err, started, callKind, everStopped>>

\* ------------------------------------------------------------------ Next
Next ==
    \/ \E g \in BOOLEAN : \E f \in FreqsFor(g) : launchSimulation_connect(g, f)
    \/ launchSimulation_setRealTime
    \/ launchSimulation_configureDebugVisualizer
    \/ launchSimulation_startThread
    \/ launchSimulation_setGravity
    \/ \E h \in Clients : resetSimulation(h)
    \/ \E h \in Clients : stopSimulation(h)
    \/ \E h \in Clients : spawnPepper_setAdditionalSearchPath(h)
    \/ spawnPepper_loadMJCF
    \/ spawnPepper_loadRobot
    \/ \E h \in Clients : spawnPepper_noGroundPlane(h)
    \/ \E t \in Tasks : stepSimulation(t)

Spec == Init /\ [][Next]_vars

\* ================================================================ claims
HandleOps == {"resetSimulation", "stopSimulation", "spawnPepper"}
Earth == <<0, 0, 0 - 981>>
\* the caller's variables changed: a step of the caller, not of a thread
CallerMoved == <<pc, callVars, err, callKind>>' # <<pc, callVars, err, callKind>>
TasksOn(c) == {t \in Tasks : Alive(t) /\ tclient[t] = c}

\* C1: after stopSimulation(handle) the thread bound to that handle makes no
\* successful step any more: its next step attempt fails and it ends.
C1_NoStepAfterStop ==
    \A t \in Tasks : tstop[t] # "stepped"

\* C2 as stated: once stopSimulation(handle) has returned, every later
\* resetSimulation, stopSimulation or spawnPepper on that handle fails with the
\* engine's not-connected error and changes no instance's objects.
C2_StoppedHandleFailsForever ==
    /\ [](op \in HandleOps /\ callKind \in {"stopped", "reissued"}
            => /\ pc # "returned"
               /\ pc = "raised" => err = "not_connected")
    /\ [][op' \in HandleOps /\ callKind' \in {"stopped", "reissued"}
            => objects' = objects]_vars

\* C2 amended: the same, for as long as the engine has not issued the
\* identifier again to a later launch.
C2_StoppedHandleFailsUntilReissued ==
    /\ [](op \in HandleOps /\ callKind = "stopped"
            => /\ pc # "returned"
               /\ pc = "raised" => err = "not_connected")
    /\ [][op' \in HandleOps /\ callKind' = "stopped"
            => objects' = objects]_vars

C2_Witness ==
    /\ op = "spawnPepper"
    /\ callKind = "stopped"
    /\ pc = "raised"
    /\ err = "not_connected"
    /\ \E c \in Clients : connected[c] /\ objects[c] # <<>>

\* C3: a launch with gui = FALSE that returns has started exactly one thread,
\* bound to the returned handle and to frequency_multiplier; a launch with
\* gui = TRUE starts none, and neither does reset, stop or spawn.
C3_OneThreadPerHeadlessLaunch ==
    /\ op # "launchSimulation" => started = {}
    /\ op = "launchSimulation" /\ gui => started = {}
    /\ op = "launchSimulation" /\ ~gui /\ pc = "returned"
         => /\ Cardinality(started) = 1
            /\ \A t \in started :
                 /\ Alive(t)
                 /\ tclient[t] = physics_client
                 /\ tfreq[t] = frequency_multiplier
    /\ \A t \in Tasks : Alive(t) => tclient[t] \in Clients

C3_Witness ==
    /\ op = "launchSimulation"
    /\ ~gui
    /\ pc = "returned"
    /\ frequency_multiplier = 2
    /\ \E t \in started : tfreq[t] = 2 /\ tclient[t] = physics_client

\* C4: every handle has at most one running thread stepping it, and a GUI
\* handle is never stepped by a thread.
C4_AtMostOneThreadPerHandle ==
    \A c \in Clients :
        /\ Cardinality(TasksOn(c)) <= 1
        /\ mode[c] = "GUI" => ~stepped[c]

\* C5: a failed step call ends the thread, which makes no further step call;
\* the caller sees nothing of it; and a thread whose handle was never
\* disconnected never ends.
C5_FailureEndsThreadSilently ==
    /\ [](\A t \in Tasks : tstop[t] = "failed" <=> tpc[t] = "done")
    /\ [][\A t \in Tasks :
            tstop[t] # "failed" /\ tstop'[t] = "failed"
              => /\ ~CallerMoved
                 /\ tstop[t] \in {"stopped", "stepped"}
                 /\ ~connected[tclient[t]]]_vars
    /\ [][\A t \in Tasks : tpc[t] = "done" => UNCHANGED <<tpc[t], tstop[t]>>]_vars

C5_Witness ==
    /\ \E t \in Tasks : tpc[t] = "done" /\ tstop[t] = "failed"
    /\ pc = "returned"
    /\ err = "none"
    /\ op = "spawnPepper"

\* the object count, gravity and connection of instance c stay as they are
Same(c) ==
    /\ Len(objects'[c]) = Len(objects[c])
    /\ gravity'[c] = gravity[c]
    /\ connected'[c] = connected[c]

\* a thread made a step that shows: a first step on an instance, a step after
\* its handle was disconnected, or a failed step
ThreadMoved ==
    \/ \E c \in Clients : stepped'[c] /\ ~stepped[c]
    \/ \E t \in Tasks : tstop'[t] # tstop[t] /\ tstop'[t] \in {"stepped", "failed"}

\* C6: a step of a thread changes no instance's object count, gravity or
\* connection, and a call of the caller changes them for no other instance
\* than the one it is made on.
C6_OtherInstanceUntouched ==
    [][\A c \in Clients :
         /\ ThreadMoved => Same(c)
         /\ c # physics_client' => Same(c)]_vars

C6_Witness ==
    \E c, d \in Clients :
        /\ mode[c] = "GUI" /\ mode[d] = "DIRECT"
        /\ stepped[d]
        /\ objects[c] # <<>>
        /\ op = "resetSimulation" /\ physics_client = d /\ pc = "returned"
        /\ TasksOn(d) # {}

\* C7: resetSimulation on a connected handle leaves the instance empty and
\* connected, and no thread ends unless its handle was disconnected: a reset
\* ends none, and the thread goes on stepping the connected handle.
C7_ResetKeepsInstanceAndThread ==
    /\ op = "resetSimulation" /\ pc = "returned"
         => /\ objects[physics_client] = <<>>
            /\ connected[physics_client]
    /\ \A t \in Tasks :
         tpc[t] # "unborn" /\ tstop[t] = "no"
           => Alive(t) /\ connected[StepTarget(t)]

C7_Witness ==
    /\ op = "resetSimulation"
    /\ pc = "returned"
    /\ callKind = "live"
    /\ mode[physics_client] = "DIRECT"
    /\ stepped[physics_client]
    /\ \E t \in TasksOn(physics_client) : tstop[t] = "no"
    /\ \E c \in Clients : objects[c] # <<>>

\* C8: the handle a launch returns has gravity (0, 0, -9.81); with gui = TRUE
\* it has real-time stepping on and the three previews off, with gui = FALSE
\* real-time stepping and the previews are as the engine set them on connect.
C8_LaunchConfiguration ==
    op = "launchSimulation" /\ pc = "returned"
      => /\ connected[physics_client]
         /\ gravity[physics_client] = Earth
         /\ IF gui
            THEN /\ mode[physics_client] = "GUI"
                 /\ realTime[physics_client]
                 /\ \A k \in Kinds : ~preview[physics_client][k]
            ELSE /\ mode[physics_client] = "DIRECT"
                 /\ ~realTime[physics_client]
                 /\ \A k \in Kinds : preview[physics_client][k]

C8_Witness ==
    /\ op = "launchSimulation"
    /\ pc = "returned"
    /\ ~gui
    /\ gravity[physics_client] = Earth
    /\ \E c \in Clients : mode[c] = "GUI" /\ realTime[c] /\ ~preview[c]["SEG"]

\* C9: spawnPepper with spawn_ground_plane = TRUE on a connected handle loads
\* the ground plane and then the robot into it; it fails only when an asset
\* fails to load.
C9_GroundPlaneSpawnOnConnectedHandle ==
    op = "spawnPepper" /\ spawn_ground_plane /\ callKind \in {"live", "reissued"}
      => /\ pc = "raised" => err = "asset"
         /\ pc = "returned"
              => \E i \in 1 .. Len(objects[physics_client]) - 1 :
                    /\ objects[physics_client][i] = "ground_plane"
                    /\ objects[physics_client][i + 1] = "pepper"

\* C10: no step is made on an instance before its gravity is (0, 0, -9.81).
C10_GravityBeforeFirstStep ==
    \A c \in Clients : stepped[c] => gravity[c] = Earth

====
